---- MODULE Spec2Model ----
(***************************************************************************)
(* run.py: GitHubIssuesFinder (rate-limit bookkeeping, the two paginated   *)
(* fetchers, save_results) and main(), as a state machine.                  *)
(*                                                                         *)
(* The remote API is the environment.  Two kinds of remote are modelled:   *)
(*   "mock": a fixed data set (so many repositories per language, so many  *)
(*           labelled issues per repository, an optional failing page, a   *)
(*           quota that counts down), as in the spec's testable properties;*)
(*   "any" : every response is chosen freely (status, page fill, headers). *)
(* Spec runs main() against every mock; SpecFetch runs one fetcher call    *)
(* on a fresh finder against the "any" remote.                             *)
(***************************************************************************)
EXTENDS Integers, Sequences, FiniteSets, TLC

VARIABLES
    token,                 \* os.getenv('GITHUB_TOKEN')
    remote,                \* the environment: which remote API answers
    now,                   \* time.time(), in whole seconds; only sleeping
                           \* takes time
    pc,                    \* position in main() / in the running fetcher
    rate_limit_remaining,  \* self.rate_limit_remaining
    rate_limit_reset,      \* self.rate_limit_reset
    li,                    \* index of `language` in `languages`
    repos,                 \* get_top_repos: repos; main: the returned list
    page,                  \* the running fetcher's `page`
    ri,                    \* index of `repo` in repos[:20]
    issues,                \* get_beginner_issues: issues; main: returned list
    all_results,           \* main: all_results
    out_dir,               \* whether github_issues/ has been created
    files,                 \* the files written by save_results, in order
    sent,                  \* ghost: number of HTTP requests sent so far
    reqPages,              \* ghost: the `page` parameters sent in this call
    served,                \* ghost: raw items the API served (200) in this call
    lastResp,              \* ghost: the most recent response (NoResp if none)
    lastCheck              \* ghost: what the latest _check_rate_limit saw/did

vars == <<token, remote, now, pc, rate_limit_remaining, rate_limit_reset, li,
          repos, page, ri, issues, all_results, out_dir, files, sent,
          reqPages, served, lastResp, lastCheck>>

(***************************************************************************)
(* Bounds of the model                                                     *)
(***************************************************************************)
\* items on a full page of a mock (the code asks per_page=100)
PageSize == 3
\* most items the "any" remote puts on one page
AnyPageSize == 2
\* the later of the two reset times the "any" remote sends
LateReset == 4
\* the issue fetcher has no page cap; the model follows it up to this page
MaxIssuePage == 11

(***************************************************************************)
(* Program constants                                                       *)
(***************************************************************************)
None == -1             \* Python's None, where an int may stand
LowWater == 10         \* _check_rate_limit: remaining < 10
SafetyMargin == 1      \* time.sleep(wait_time + 1)
StatusOK == 200        \* response.status_code != 200
MaxSearchPage == 10    \* get_top_repos: if page > 10: break
TopN == 20             \* main: repos[:20]
MinStars == 5000       \* main: get_top_repos(min_stars=5000, ...)

Languages == <<"python", "javascript", "java", "go", "rust">>

NoToken == "<unset>"   \* os.getenv returns None for an unset variable
Tokens == {NoToken, "", "ghp_token"}

Min(a, b) == IF a < b THEN a ELSE b
Max(a, b) == IF a > b THEN a ELSE b

(***************************************************************************)
(* Python truthiness, as the code relies on it                             *)
(***************************************************************************)
\* mutant of TokenTruthy: only an unset variable is rejected
TokenNotNone(t) == t # NoToken

\* `if not github_token`: None and '' are falsy
TokenTruthy(t) == t # NoToken /\ t # ""

\* `if self.rate_limit_remaining and ...`: None and 0 are falsy
IntTruthy(x) == x # None /\ x # 0

(***************************************************************************)
(* Rate limiter                                                            *)
(***************************************************************************)
\* int(response.headers.get(name, 0)); an absent header is None here
HeaderInt(h) == IF h = None THEN 0 ELSE h

\* mutant of LowQuota: the low-water mark itself counts as low
LowQuotaInclusive(remaining) == IntTruthy(remaining) /\ remaining <= LowWater

\* the guard of _check_rate_limit's outer if
LowQuota(remaining) == IntTruthy(remaining) /\ remaining < LowWater

\* seconds _check_rate_limit suspends the caller for (0: no sleep)
SleepFor(remaining, reset, t) ==
    IF LowQuota(remaining)
    THEN LET wait_time == reset - t
         IN  IF wait_time > 0 THEN wait_time + SafetyMargin ELSE 0
    ELSE 0

NoCheck == [remaining |-> None, reset |-> None, at |-> 0, slept |-> 0,
            seq |-> 0]

\* _check_rate_limit: the shared state change of both fetchers' call of it
CheckRateLimit ==
    LET d == SleepFor(rate_limit_remaining, rate_limit_reset, now)
    IN  /\ now' = now + d
        /\ lastCheck' = [remaining |-> rate_limit_remaining,
                         reset |-> rate_limit_reset,
                         at |-> now, slept |-> d, seq |-> sent + 1]

\* mutant of UpdateRateLimit: only a successful response is observed
UpdateOnSuccessOnly(resp) ==
    IF resp.status = 200
    THEN /\ rate_limit_remaining' = HeaderInt(resp.remaining)
         /\ rate_limit_reset' = HeaderInt(resp.reset)
    ELSE UNCHANGED <<rate_limit_remaining, rate_limit_reset>>

\* _update_rate_limit(response)
UpdateRateLimit(resp) ==
    /\ rate_limit_remaining' = HeaderInt(resp.remaining)
    /\ rate_limit_reset' = HeaderInt(resp.reset)

(***************************************************************************)
(* The remote API (environment)                                            *)
(***************************************************************************)
NoResp == [status |-> 0, items |-> <<>>, remaining |-> None, reset |-> None]

Statuses == {StatusOK, 403}
\* X-RateLimit-Remaining / X-RateLimit-Reset values the "any" remote sends
\* (None: the header is absent)
RemainingHdrs == {None, 0, LowWater - 1, LowWater}
ResetHdrs == {None, 2, LateReset}

\* an item of the search API's data['items']
RepoItem(lang, rank) ==
    [full_name |-> <<lang, rank>>,
     stargazers_count |-> MinStars + 100 - rank,
     language |-> lang,
     html_url |-> <<"https://github.com", lang, rank>>,
     fork |-> FALSE]

\* the label objects of the k-th issue: the label that matched the filter and,
\* on every second issue, one that is not among the filter labels
LabelObjs(k) ==
    IF k % 2 = 0
    THEN <<[name |-> "good first issue", color |-> "7057ff"],
           [name |-> "bug", color |-> "d73a4a"]>>
    ELSE <<[name |-> "help wanted", color |-> "008672"]>>

\* an item of the issues API's list, for the repository named in the URL
IssueItem(repo_name, k) ==
    [title |-> <<"issue", k>>,
     html_url |-> <<repo_name, k>>,
     labels |-> LabelObjs(k),
     created_at |-> 20240100 + k,
     comments |-> k % 3,
     state |-> "open"]

\* the ranks of the items on a mock's page p, out of n items in total
MockPage(n, p) ==
    LET first == (p - 1) * PageSize
        cnt == Max(0, Min(PageSize, n - first))
    IN  [i \in 1..cnt |-> first + i]

\* a mock's rate-limit headers: the quota counts down with every request
MockRemaining ==
    IF remote.quota = None THEN None ELSE Max(remote.quota - (sent + 1), 0)
MockReset == IF remote.quota = None THEN None ELSE remote.resetAt

\* the responses the remote may give to GET /search/repositories, page p
SearchResponses(lang, p) ==
    IF remote.kind = "mock"
    THEN {[status |-> IF remote.searchFail = p THEN 403 ELSE StatusOK,
           items |-> IF remote.searchFail = p THEN <<>>
                     ELSE LET ranks == MockPage(remote.repoCount[lang], p)
                          IN  [i \in 1..Len(ranks) |->
                                  RepoItem(lang, ranks[i])],
           remaining |-> MockRemaining, reset |-> MockReset]}
    ELSE {[status |-> s,
           items |-> IF s = StatusOK
                     THEN [i \in 1..c |-> RepoItem(lang, Len(served) + i)]
                     ELSE <<>>,
           remaining |-> r, reset |-> t] :
          s \in Statuses, c \in 0..AnyPageSize, r \in RemainingHdrs,
          t \in ResetHdrs}

\* the responses the remote may give to GET /repos/{repo_name}/issues, page p
IssueResponses(repo_name, p) ==
    IF remote.kind = "mock"
    THEN {[status |-> IF remote.issueFail = p THEN 403 ELSE StatusOK,
           items |-> IF remote.issueFail = p THEN <<>>
                     ELSE LET ranks == MockPage(remote.issuesPer, p)
                          IN  [i \in 1..Len(ranks) |->
                                  IssueItem(repo_name, ranks[i])],
           remaining |-> MockRemaining, reset |-> MockReset]}
    ELSE {[status |-> s,
           items |-> IF s = StatusOK
                     THEN [i \in 1..c |-> IssueItem(repo_name, Len(served) + i)]
                     ELSE <<>>,
           remaining |-> r, reset |-> t] :
          s \in Statuses, c \in 0..AnyPageSize, r \in RemainingHdrs,
          t \in ResetHdrs}

(***************************************************************************)
(* get_top_repos                                                           *)
(***************************************************************************)
\* the dict built from one search item
RepoRecord(repo) ==
    [name |-> repo.full_name, stars |-> repo.stargazers_count,
     language |-> repo.language, url |-> repo.html_url]

ProjectRepos(items) == [i \in 1..Len(items) |-> RepoRecord(items[i])]

\* mutant of StatusBreaks: only server errors end the loop
ServerErrorBreaks(resp) == resp.status >= 500

\* `if response.status_code != 200: break` (both fetchers)
StatusBreaks(resp) == resp.status # StatusOK

\* the body of a non-200 response is an error object, not a result: reading
\* data['items'] from it (or an issue's fields) raises
BodyRaises(resp) == resp.status # StatusOK

\* mutant of ExtendRepos: the page replaces what was accumulated
AssignRepos(rs, items) == ProjectRepos(items)

\* repos.extend([...])
ExtendRepos(rs, items) == rs \o ProjectRepos(items)

\* mutant of SearchCapReached: the cap is off by one
SearchCapLate(p) == p > 11

\* `if page > 10: break`, evaluated after page += 1
SearchCapReached(p) == p > MaxSearchPage

\* get_top_repos returns to main, which starts `for repo in repos[:20]`
ReposReturn == /\ pc' = "for_repo"
               /\ ri' = 1

\* self._check_rate_limit() at the top of get_top_repos' loop
ReposCheck ==
    /\ pc = "repos_check"
    /\ CheckRateLimit
    /\ pc' = "repos_get"
    /\ UNCHANGED <<token, remote, rate_limit_remaining, rate_limit_reset, li,
                   repos, page, ri, issues, all_results, out_dir, files, sent,
                   reqPages, served, lastResp>>

\* requests.get(.../search/repositories) answered, and the rest of the
\* loop body: _update_rate_limit, the status and emptiness tests, extend,
\* page += 1 and the page cap
ReposGet ==
    /\ pc = "repos_get"
    /\ \E resp \in SearchResponses(Languages[li], page) :
        /\ sent' = sent + 1
        /\ reqPages' = Append(reqPages, page)
        /\ lastResp' = resp
        /\ UpdateRateLimit(resp)
        /\ IF StatusBreaks(resp)
           THEN /\ ReposReturn
                /\ UNCHANGED <<repos, page, served>>
           ELSE IF BodyRaises(resp)
           THEN /\ pc' = "crashed"
                /\ UNCHANGED <<repos, page, served, ri>>
           ELSE IF resp.items = <<>>
           THEN /\ ReposReturn
                /\ UNCHANGED <<repos, page, served>>
           ELSE /\ repos' = ExtendRepos(repos, resp.items)
                /\ served' = served \o resp.items
                /\ page' = page + 1
                /\ IF SearchCapReached(page + 1)
                   THEN ReposReturn
                   ELSE pc' = "repos_check" /\ UNCHANGED ri
    /\ UNCHANGED <<token, remote, now, li, issues, all_results, out_dir,
                   files, lastCheck>>

(***************************************************************************)
(* get_beginner_issues                                                     *)
(***************************************************************************)
\* [label['name'] for label in issue['labels']]
LabelNames(labels) == [i \in 1..Len(labels) |-> labels[i].name]

\* the dict built from one issue item
IssueRecord(issue) ==
    [title |-> issue.title, url |-> issue.html_url,
     labels |-> LabelNames(issue.labels),
     created_at |-> issue.created_at, comments |-> issue.comments]

ProjectIssues(items) == [i \in 1..Len(items) |-> IssueRecord(items[i])]

\* issues.extend([...])
ExtendIssues(is, items) == is \o ProjectIssues(items)

\* mutant of IssuesCapReached: the search fetcher's cap, copied
IssuesCapLikeSearch(p) == p > 10

\* get_beginner_issues' loop has no test after page += 1: it never stops on
\* the page number
IssuesCapReached(p) == FALSE

\* main's `repo` while the issue fetch for it runs
CurrentRepo == repos[ri]

\* get_beginner_issues returns to main's `for issue in issues`
IssuesReturn == pc' = "append"

\* self._check_rate_limit() at the top of get_beginner_issues' loop
\* (the model follows the unbounded loop up to page MaxIssuePage)
IssuesCheck ==
    /\ pc = "issues_check"
    /\ page <= MaxIssuePage
    /\ CheckRateLimit
    /\ pc' = "issues_get"
    /\ UNCHANGED <<token, remote, rate_limit_remaining, rate_limit_reset, li,
                   repos, page, ri, issues, all_results, out_dir, files, sent,
                   reqPages, served, lastResp>>

\* requests.get(.../repos/{repo_name}/issues) answered, and the rest of the
\* loop body
IssuesGet ==
    /\ pc = "issues_get"
    /\ \E resp \in IssueResponses(CurrentRepo.name, page) :
        /\ sent' = sent + 1
        /\ reqPages' = Append(reqPages, page)
        /\ lastResp' = resp
        /\ UpdateRateLimit(resp)
        /\ IF StatusBreaks(resp)
           THEN /\ IssuesReturn
                /\ UNCHANGED <<issues, page, served>>
           ELSE IF BodyRaises(resp)
           THEN /\ pc' = "crashed"
                /\ UNCHANGED <<issues, page, served>>
           ELSE IF resp.items = <<>>
           THEN /\ IssuesReturn
                /\ UNCHANGED <<issues, page, served>>
           ELSE /\ issues' = ExtendIssues(issues, resp.items)
                /\ served' = served \o resp.items
                /\ page' = page + 1
                /\ IF IssuesCapReached(page + 1)
                   THEN IssuesReturn
                   ELSE pc' = "issues_check"
    /\ UNCHANGED <<token, remote, now, li, repos, ri, all_results, out_dir,
                   files, lastCheck>>

\* requests.get or response.json() raises: nothing catches it, main ends
HttpError ==
    /\ pc \in {"repos_get", "issues_get"}
    /\ pc' = "crashed"
    /\ sent' = sent + 1
    /\ reqPages' = Append(reqPages, page)
    /\ UNCHANGED <<token, remote, now, rate_limit_remaining, rate_limit_reset,
                   li, repos, page, ri, issues, all_results, out_dir, files,
                   served, lastResp, lastCheck>>

(***************************************************************************)
(* main and save_results                                                   *)
(***************************************************************************)
\* ', '.join(labels): the names with the separator between neighbours
RECURSIVE Join(_)
Join(names) ==
    IF Len(names) = 0 THEN <<>>
    ELSE IF Len(names) = 1 THEN <<names[1]>>
    ELSE <<names[1], ", ">> \o Join(Tail(names))

\* the dict main appends for one issue of one repo
OutputRow(repo, issue) ==
    [repository |-> repo.name, repo_stars |-> repo.stars,
     repo_language |-> repo.language, repo_url |-> repo.url,
     issue_title |-> issue.title, issue_url |-> issue.url,
     issue_labels |-> Join(issue.labels),
     created_at |-> issue.created_at, comments |-> issue.comments]

\* mutant of TopRepos: no slice
AllRepos(rs) == rs

\* repos[:20]
TopRepos(rs) == SubSeq(rs, 1, Min(TopN, Len(rs)))

\* the column names, in the order main writes the keys
RowKeys == <<"repository", "repo_stars", "repo_language", "repo_url",
             "issue_title", "issue_url", "issue_labels", "created_at",
             "comments">>

\* what pd.DataFrame(results).to_csv(filename, index=False) writes: the
\* header from the rows' keys (none for an empty list), then a line per row
CsvOf(results) ==
    [header |-> IF results = <<>> THEN <<>> ELSE RowKeys,
     lines |-> [i \in 1..Len(results) |->
                  [k \in 1..Len(RowKeys) |->
                      CASE k = 1 -> results[i].repository
                        [] k = 2 -> results[i].repo_stars
                        [] k = 3 -> results[i].repo_language
                        [] k = 4 -> results[i].repo_url
                        [] k = 5 -> results[i].issue_title
                        [] k = 6 -> results[i].issue_url
                        [] k = 7 -> results[i].issue_labels
                        [] k = 8 -> results[i].created_at
                        [] OTHER -> results[i].comments]]]

\* main up to the for loop: read the token, raise if it is falsy, else
\* construct the finder and the empty all_results
Start ==
    /\ pc = "start"
    /\ IF ~TokenTruthy(token)
       THEN /\ pc' = "crashed"
            /\ UNCHANGED <<rate_limit_remaining, rate_limit_reset, li,
                           all_results>>
       ELSE /\ pc' = "for_lang"
            /\ rate_limit_remaining' = None
            /\ rate_limit_reset' = None
            /\ li' = 1
            /\ all_results' = <<>>
    /\ UNCHANGED <<token, remote, now, repos, page, ri, issues, out_dir,
                   files, sent, reqPages, served, lastResp, lastCheck>>

\* mutant of LoopDone: the export is indented into the language loop
LoopDoneAfterFirst(i) == i > 1

\* `for language in languages` has run out of languages
LoopDone(i) == i > Len(Languages)

\* `for language in languages`: call get_top_repos for the next language,
\* or leave the loop
ForLang ==
    /\ pc = "for_lang"
    /\ IF ~LoopDone(li)
       THEN /\ pc' = "repos_check"
            /\ repos' = <<>>
            /\ page' = 1
            /\ reqPages' = <<>>
            /\ served' = <<>>
       ELSE /\ pc' = "export"
            /\ UNCHANGED <<repos, page, reqPages, served>>
    /\ UNCHANGED <<token, remote, now, rate_limit_remaining, rate_limit_reset,
                   li, ri, issues, all_results, out_dir, files, sent,
                   lastResp, lastCheck>>

\* `for repo in repos[:20]`: call get_beginner_issues for the next repo, or
\* go on to the next language
ForRepo ==
    /\ pc = "for_repo"
    /\ IF ri <= Len(TopRepos(repos))
       THEN /\ pc' = "issues_check"
            /\ issues' = <<>>
            /\ page' = 1
            /\ reqPages' = <<>>
            /\ served' = <<>>
            /\ UNCHANGED li
       ELSE /\ pc' = "for_lang"
            /\ li' = li + 1
            /\ UNCHANGED <<issues, page, reqPages, served>>
    /\ UNCHANGED <<token, remote, now, rate_limit_remaining, rate_limit_reset,
                   repos, ri, all_results, out_dir, files, sent, lastResp,
                   lastCheck>>

\* `for issue in issues: all_results.append({...})`
AppendRows ==
    /\ pc = "append"
    /\ all_results' = all_results \o
                      [i \in 1..Len(issues) |-> OutputRow(CurrentRepo, issues[i])]
    /\ ri' = ri + 1
    /\ pc' = "for_repo"
    /\ UNCHANGED <<token, remote, now, rate_limit_remaining, rate_limit_reset,
                   li, repos, page, issues, out_dir, files, sent, reqPages,
                   served, lastResp, lastCheck>>

\* output_dir.mkdir(exist_ok=True); finder.save_results(all_results, ...)
Export ==
    /\ pc = "export"
    /\ out_dir' = TRUE
    /\ files' = Append(files, CsvOf(all_results))
    /\ pc' = "done"
    /\ UNCHANGED <<token, remote, now, rate_limit_remaining, rate_limit_reset,
                   li, repos, page, ri, issues, all_results, sent, reqPages,
                   served, lastResp, lastCheck>>

(***************************************************************************)
(* The remotes and the specifications                                      *)
(***************************************************************************)
LangIdx == 1..Len(Languages)

\* repositories a mock holds for a language, labelled issues per repository
RepoCounts == {0, 3, TopN + 3}
IssueCounts == {0, 2, PageSize + 1}
\* the page a mock answers with a non-200 status (0: none)
FailPages == {0, 2}
\* a mock's quota at the start (None: it sends no rate-limit headers)
Quotas == {None, LowWater + 1, 500}

\* every mock: the languages in `busy` hold `n` repositories each
Mocks ==
    {[kind |-> "mock",
      repoCount |-> [l \in {Languages[i] : i \in LangIdx} |->
                        IF l \in busy THEN n ELSE 0],
      issuesPer |-> q, searchFail |-> sf, issueFail |-> jf,
      quota |-> qu, resetAt |-> 3] :
     busy \in SUBSET {Languages[i] : i \in LangIdx},
     n \in RepoCounts \ {0}, q \in IssueCounts, sf \in FailPages,
     jf \in FailPages, qu \in Quotas}

AnyRemote ==
    [kind |-> "any", repoCount |-> <<>>, issuesPer |-> 0, searchFail |-> 0,
     issueFail |-> 0, quota |-> None, resetAt |-> 0]

\* before main runs: nothing constructed, nothing sent, nothing written
Blank ==
    /\ now = 1
    /\ rate_limit_remaining = None
    /\ rate_limit_reset = None
    /\ li = 1
    /\ repos = <<>>
    /\ page = 1
    /\ ri = 1
    /\ issues = <<>>
    /\ all_results = <<>>
    /\ out_dir = FALSE
    /\ files = <<>>
    /\ sent = 0
    /\ reqPages = <<>>
    /\ served = <<>>
    /\ lastResp = NoResp
    /\ lastCheck = NoCheck

Init ==
    /\ token \in Tokens
    /\ remote \in Mocks
    /\ pc = "start"
    /\ Blank

Next ==
    \/ Start
    \/ ForLang
    \/ ReposCheck
    \/ ReposGet
    \/ ForRepo
    \/ IssuesCheck
    \/ IssuesGet
    \/ AppendRows
    \/ HttpError
    \/ Export

Spec == Init /\ [][Next]_vars

\* One fetcher call on a freshly constructed finder, against the "any"
\* remote: get_top_repos(5000, language) for the first or the last of the
\* languages, or get_beginner_issues(name) for the name of a repository record
InitFetch ==
    /\ token = "ghp_token"
    /\ remote = AnyRemote
    /\ now = 1
    /\ rate_limit_remaining = None
    /\ rate_limit_reset = None
    /\ li \in {1, Len(Languages)}
    /\ \/ pc = "repos_check" /\ repos = <<>>
       \/ pc = "issues_check" /\ repos = ProjectRepos(<<RepoItem(Languages[li], 1)>>)
    /\ page = 1
    /\ ri = 1
    /\ issues = <<>>
    /\ all_results = <<>>
    /\ out_dir = FALSE
    /\ files = <<>>
    /\ sent = 0
    /\ reqPages = <<>>
    /\ served = <<>>
    /\ lastResp = NoResp
    /\ lastCheck = NoCheck

NextFetch ==
    \/ ReposCheck
    \/ ReposGet
    \/ IssuesCheck
    \/ IssuesGet
    \/ HttpError

SpecFetch == InitFetch /\ [][NextFetch]_vars

(***************************************************************************)
(* What the specification expects: the records and rows by its field list, *)
(* and what the fetchers should return from a mock                         *)
(***************************************************************************)
\* RepositoryRecord of a search item: full name, star count, language, URL
WantRepo(item) ==
    [name |-> item.full_name, stars |-> item.stargazers_count,
     language |-> item.language, url |-> item.html_url]

\* IssueRecord of an issue item: title, URL, every label name on the issue,
\* creation timestamp, comment count
WantIssue(item) ==
    [title |-> item.title, url |-> item.html_url,
     labels |-> [i \in 1..Len(item.labels) |-> item.labels[i].name],
     created_at |-> item.created_at, comments |-> item.comments]

WantRepos(items) == [k \in 1..Len(items) |-> WantRepo(items[k])]
WantIssues(items) == [k \in 1..Len(items) |-> WantIssue(items[k])]

\* pages 1, 2, ..., n in this order
Consecutive(pages) == \A k \in 1..Len(pages) : pages[k] = k

\* a response came with status 200 and items
FullPage(resp) == resp.status = StatusOK /\ resp.items # <<>>
\* a response came with status 200 and no items
EmptyPage(resp) == resp.status = StatusOK /\ resp.items = <<>>
\* a response came with another status
Failed(resp) == resp # NoResp /\ resp.status # StatusOK

InSearch == pc \in {"repos_check", "repos_get", "for_repo"}
InIssues == pc \in {"issues_check", "issues_get", "append"}

\* items a mock serves before its failing page, out of n
BeforeFail(n, failPage) ==
    IF failPage = 0 THEN n ELSE Min(n, (failPage - 1) * PageSize)

\* repositories get_top_repos should return from the mock for a language
MockRepoN(lang) ==
    Min(BeforeFail(remote.repoCount[lang], remote.searchFail),
        MaxSearchPage * PageSize)

\* issues get_beginner_issues should return from the mock for a repository
MockIssueN == BeforeFail(remote.issuesPer, remote.issueFail)

\* the OutputRow of the k-th issue of the r-th repository of a language
WantRow(lang, r, k) ==
    [repository |-> <<lang, r>>,
     repo_stars |-> MinStars + 100 - r,
     repo_language |-> lang,
     repo_url |-> <<"https://github.com", lang, r>>,
     issue_title |-> <<"issue", k>>,
     issue_url |-> <<<<lang, r>>, k>>,
     issue_labels |-> IF k % 2 = 0 THEN <<"good first issue", ", ", "bug">>
                      ELSE <<"help wanted">>,
     created_at |-> 20240100 + k,
     comments |-> k % 3]

\* the rows of the first n repositories of a language
RECURSIVE RowsOfRepos(_, _)
RowsOfRepos(lang, n) ==
    IF n = 0 THEN <<>>
    ELSE RowsOfRepos(lang, n - 1) \o [k \in 1..MockIssueN |-> WantRow(lang, n, k)]

\* the rows of the first l languages: at most the top 20 of each
RECURSIVE RowsOfLangs(_)
RowsOfLangs(l) ==
    IF l = 0 THEN <<>>
    ELSE RowsOfLangs(l - 1) \o
         RowsOfRepos(Languages[l], Min(TopN, MockRepoN(Languages[l])))

(***************************************************************************)
(* The claims                                                              *)
(***************************************************************************)

\* C1: whenever _check_rate_limit runs with a stored remaining quota below
\* 10 (0 included, also the 0 stored for an absent header) and a reset time
\* later than the current time, it suspends the caller for at least
\* resetAt - now seconds.  (The code does not: a stored 0 is falsy.)
C1_ThrottlesBelowLowWater ==
    (/\ lastCheck.seq > 0
     /\ lastCheck.remaining # None
     /\ lastCheck.remaining < LowWater
     /\ lastCheck.reset > lastCheck.at)
    => lastCheck.slept >= lastCheck.reset - lastCheck.at

\* C2: _check_rate_limit never suspends the caller when the remaining quota
\* was never observed or is 10 or more, whatever the reset time is.
C2_NoThrottleAtOrAboveLowWater ==
    (/\ lastCheck.seq > 0
     /\ (lastCheck.remaining = None \/ lastCheck.remaining >= LowWater))
    => /\ lastCheck.slept = 0
       /\ (pc \in {"repos_get", "issues_get"} => now = lastCheck.at)

C2_Witness ==
    /\ pc \in {"repos_get", "issues_get"}
    /\ lastCheck.remaining = LowWater
    /\ lastCheck.reset > lastCheck.at
    /\ lastCheck.slept = 0

\* C3: whatever the remote answers, one get_top_repos call requests pages
\* 1, 2, ... consecutively, sends at most 10 requests, never asks for page
\* 11, has returned once page 10 was answered, and returns at most
\* 10 pages' worth of records.
C3_SearchStopsAtPageCap ==
    InSearch =>
        /\ Consecutive(reqPages)
        /\ Len(reqPages) <= MaxSearchPage
        /\ page <= MaxSearchPage + 1
        /\ (pc \in {"repos_check", "repos_get"} => page <= MaxSearchPage)
        /\ (Len(reqPages) = MaxSearchPage => pc = "for_repo")
        /\ Len(repos) <= MaxSearchPage * AnyPageSize

C3_Witness ==
    /\ pc = "for_repo"
    /\ Len(reqPages) = MaxSearchPage
    /\ FullPage(lastResp)
    /\ Len(repos) = MaxSearchPage * AnyPageSize

\* C4: when the search API answers page k with status 200 and no items,
\* get_top_repos has returned without a further request, and its result is
\* the records of the items of pages 1..k-1, in page and item order.
C4_EmptyPageEndsSearch ==
    (InSearch /\ EmptyPage(lastResp)) =>
        /\ pc = "for_repo"
        /\ Consecutive(reqPages)
        /\ Len(reqPages) = page
        /\ repos = WantRepos(served)

C4_Witness ==
    /\ pc = "for_repo"
    /\ EmptyPage(lastResp)
    /\ Len(reqPages) = 3
    /\ Len(repos) = 2 * AnyPageSize

\* C5: in both fetchers a response with a status other than 200 on page k
\* ends the call normally, with no further request, and the call returns the
\* records of pages 1..k-1: nothing when k = 1.
C5_FailedPageEndsCall ==
    Failed(lastResp) =>
        /\ pc \in {"for_repo", "append"}
        /\ Consecutive(reqPages)
        /\ Len(reqPages) = page
        /\ (pc = "for_repo" => repos = WantRepos(served))
        /\ (pc = "append" => issues = WantIssues(served))
        /\ (page = 1 => IF pc = "for_repo" THEN repos = <<>> ELSE issues = <<>>)

C5_Witness ==
    /\ Failed(lastResp)
    /\ pc = "append"
    /\ page = 3
    /\ Len(issues) = 2 * AnyPageSize

\* C7: get_beginner_issues requests pages 1, 2, 3, ... consecutively with no
\* cap; it has returned exactly when the latest response was a non-200 or an
\* empty page, so it goes on for as long as full pages come; its result is
\* the records of the items of the pages before the one that stopped it.
C7_IssuesStopOnlyOnFailedOrEmptyPage ==
    InIssues =>
        /\ Consecutive(reqPages)
        /\ (pc = "append" => /\ Failed(lastResp) \/ EmptyPage(lastResp)
                             /\ Len(reqPages) = page
                             /\ issues = WantIssues(served))
        /\ (pc = "issues_check" /\ page > 1 => /\ FullPage(lastResp)
                                                /\ Len(reqPages) = page - 1)
        /\ (reqPages # <<>> /\ (Failed(lastResp) \/ EmptyPage(lastResp))
              => pc = "append")

C7_Witness ==
    /\ pc = "append"
    /\ Len(reqPages) = MaxSearchPage + 1
    /\ EmptyPage(lastResp)
    /\ Len(issues) = MaxSearchPage * AnyPageSize

\* C6: for each language main fetches issues for each of the first 20
\* repositories get_top_repos returned (fewer if fewer), in returned order,
\* and appends one row per issue returned, the row's repository fields being
\* those of the record whose name was passed to that fetch: after every
\* repository, all_results is exactly the rows the mock's data gives.  A
\* mock with 3 "go" repositories of 2 issues each gives 6 rows.
C6_RowsJoinTop20ReposWithTheirIssues ==
    /\ (InIssues => /\ ri <= TopN
                    /\ ri <= Len(repos)
                    /\ CurrentRepo.name = <<Languages[li], ri>>)
    /\ (pc = "for_repo" =>
            /\ ri <= Min(TopN, Len(repos)) + 1
            /\ all_results = RowsOfLangs(li - 1) \o
                             RowsOfRepos(Languages[li], ri - 1))
    /\ (pc \in {"export", "done"} =>
            /\ all_results = RowsOfLangs(Len(Languages))
            /\ \A i \in 1..Len(all_results) :
                   /\ all_results[i].repository = all_results[i].issue_url[1]
                   /\ all_results[i].repo_language = all_results[i].repository[1])

\* the last language held more than 20 repositories with issues: main is
\* done, and the last row is of the 20th
C6_Witness ==
    /\ pc = "done"
    /\ Len(repos) > TopN
    /\ all_results # <<>>
    /\ all_results[Len(all_results)].repository = <<Languages[Len(Languages)], TopN>>
    /\ all_results[Len(all_results)].issue_url[2] = PageSize + 1

\* the spec's end-to-end example: 3 "go" repositories, 2 issues each
C6_ExampleReached ==
    /\ pc = "done"
    /\ Len(all_results) = 6
    /\ \A i \in 1..6 : /\ all_results[i].repo_language = "go"
                       /\ all_results[i].repository \in {<<"go", r>> : r \in 1..3}

\* C8: with GITHUB_TOKEN unset or empty, main raises at once: no HTTP
\* request is sent, the output directory is not created, no file is written.
C8_MissingTokenIsFatalBeforeAnyActivity ==
    token \in {NoToken, ""} =>
        /\ pc \in {"start", "crashed"}
        /\ sent = 0
        /\ lastCheck = NoCheck
        /\ lastResp = NoResp
        /\ out_dir = FALSE
        /\ files = <<>>

C8_Witness ==
    /\ token = ""
    /\ pc = "crashed"

\* C9: every request is immediately preceded by a _check_rate_limit call,
\* every response (whatever its status, from either fetcher) is stored by
\* _update_rate_limit before the next check, and nothing else writes the
\* rate-limit state: it always holds the headers of the most recent
\* response, which is all the check before the next request looks at.
C9_ThrottleSeesLatestResponse ==
    /\ (pc \in {"repos_get", "issues_get"} => lastCheck.seq = sent + 1)
    /\ (pc \in {"repos_check", "issues_check"} => lastCheck.seq <= sent)
    /\ IF lastResp = NoResp
       THEN rate_limit_remaining = None /\ rate_limit_reset = None
       ELSE /\ rate_limit_remaining =
                  (IF lastResp.remaining = None THEN 0 ELSE lastResp.remaining)
            /\ rate_limit_reset =
                  (IF lastResp.reset = None THEN 0 ELSE lastResp.reset)
    /\ (pc \in {"repos_get", "issues_get"} =>
            /\ lastCheck.remaining = rate_limit_remaining
            /\ lastCheck.reset = rate_limit_reset)

\* the first issue fetch of a run throttles on the quota the search
\* fetcher's last response (a failed one) reported
C9_Witness ==
    /\ pc = "issues_get"
    /\ reqPages = <<>>
    /\ Failed(lastResp)
    /\ lastCheck.slept > 0

\* C10: save_results runs once per run, after the fetches of all five
\* languages; while a fetch is pending, and after an exception ended the
\* run, nothing is written; the one file holds all accumulated rows in the
\* order they were appended.
C10_SingleExportAfterAllFetches ==
    /\ Len(files) <= 1
    /\ (pc # "done" => files = <<>> /\ out_dir = FALSE)
    /\ (pc = "done" =>
            /\ Len(files) = 1
            /\ out_dir = TRUE
            /\ li = Len(Languages) + 1
            /\ Len(files[1].lines) = Len(all_results)
            /\ \A i \in 1..Len(all_results) :
                   /\ files[1].lines[i][1] = all_results[i].repository
                   /\ files[1].lines[i][5] = all_results[i].issue_title
                   /\ files[1].lines[i][6] = all_results[i].issue_url)

C10_Witness ==
    /\ pc = "done"
    /\ Len(files) = 1
    /\ Len(files[1].lines) > TopN
    /\ files[1].lines[1][1][1] = Languages[1]
    /\ files[1].lines[Len(files[1].lines)][1][1] = Languages[Len(Languages)]

====
